---- MODULE Spec2Model ----
(***************************************************************************)
(* Model of servers/tavily/tavily_mcp.py: the Search Gateway (TavilyMCP)   *)
(* and the Inbound Handler (MCPRequestHandler) that serves POST /mcp,      *)
(* POST /search, GET /health and GET /mcp-config.                          *)
(*                                                                         *)
(* One request is followed from the moment the HTTP layer hands it to the  *)
(* handler until the handler returns.  The environment chooses the         *)
(* request, the outcome of the provider call, the outcome of reading the   *)
(* configuration file and whether a write to the connection succeeds.      *)
(***************************************************************************)
EXTENDS Integers, Sequences, FiniteSets, TLC

(***************************************************************************)
(* Bounds of the model.                                                    *)
(***************************************************************************)
\* longest result sequence the provider returns
MaxItems == 2
\* largest max_results a request supplies (0..MaxSupplied)
MaxSupplied == 1

(***************************************************************************)
(* Program constants.                                                      *)
(***************************************************************************)
\* def search(self, query, max_results: int = 10, search_depth = "basic")
GatewayDefaultMaxResults == 10
GatewayDefaultSearchDepth == "basic"
\* inputs.get("max_results", 10) / inputs.get("search_depth", "basic")
McpDefaultMaxResults == 10
McpDefaultSearchDepth == "basic"
\* request_data.get("max_results", 10) / request_data.get("search_depth", "basic")
LegacyDefaultMaxResults == 10
LegacyDefaultSearchDepth == "basic"

\* Python's None
None == "<None>"

(***************************************************************************)
(* Values the environment supplies.                                        *)
(***************************************************************************)
\* query strings; the handler accepts the empty string like any other
Queries == {"cats", ""}
SuppliedMaxResults == 0..MaxSupplied
\* search_depth is not validated: "bogus" is passed through
SuppliedDepths == {"advanced", "bogus"}
\* credential arguments and values of the TAVILY_API_KEY variable
ApiKeyArgs == {None, "", "arg-key"}
EnvKeys == {None, "", "env-key"}
\* result items of the provider, and what it echoes as the query
Items == {"r1", "r2"}
Echoes == {"cats", "normalised"}
\* messages of the exceptions the provider client raises
ProviderFaults == {"timed out", "Unauthorized: invalid API key"}

Methods == {"POST", "GET", "PUT"}
Paths == {"/mcp", "/search", "/health", "/mcp-config", "/other"}
\* the Content-Length header: absent, "0", not a number, or the body's length
ContentLengths == {"absent", "zero", "garbage", "ok"}

RECURSIVE SeqsUpTo(_, _)
SeqsUpTo(S, n) ==
    IF n = 0 THEN {<<>>}
    ELSE LET shorter == SeqsUpTo(S, n - 1)
         IN  shorter \cup {Append(s, x) : s \in {t \in shorter : Len(t) = n - 1}, x \in S}

(***************************************************************************)
(* A decoded JSON value, as far as the handler looks into it.  kind is the *)
(* Python type json.loads produced ("scalar" stands for None, a number or  *)
(* a boolean).  keys is what the value contains in the sense of Python's   *)
(* `in`: the keys of a dict, the elements of a list, the substrings of a   *)
(* str.  The fields hold the values of a dict's keys.                      *)
(***************************************************************************)
FieldNames == {"query", "max_results", "search_depth"}

\* a field that is absent has no value
InnerDicts ==
    { [kind |-> "dict", keys |-> ks,
       query |-> IF "query" \in ks THEN q ELSE "",
       max_results |-> IF "max_results" \in ks THEN m ELSE 0,
       search_depth |-> IF "search_depth" \in ks THEN d ELSE ""] :
         ks \in SUBSET FieldNames, q \in Queries,
         m \in SuppliedMaxResults, d \in SuppliedDepths }

InnerValues ==
    InnerDicts
    \cup { [kind |-> k, keys |-> ks,
            query |-> "", max_results |-> 0, search_depth |-> ""] :
              k \in {"str", "list"}, ks \in SUBSET {"query"} }
    \cup { [kind |-> "scalar", keys |-> {},
            query |-> "", max_results |-> 0, search_depth |-> ""] }

NoInputs == [kind |-> "scalar", keys |-> {},
             query |-> "", max_results |-> 0, search_depth |-> ""]

\* top-level fields next to an `inputs` key: none, or all three
Decoy == [kind |-> "dict", keys |-> FieldNames,
          query |-> "cats", max_results |-> 0, search_depth |-> "bogus"]
Bare == [kind |-> "dict", keys |-> {},
         query |-> "", max_results |-> 0, search_depth |-> ""]

Bodies ==
    { [kind |-> "dict", keys |-> v.keys,
       query |-> v.query, max_results |-> v.max_results,
       search_depth |-> v.search_depth, inputs |-> NoInputs] :
         v \in InnerDicts }
    \cup { [kind |-> "dict", keys |-> v.keys \cup {"inputs"},
            query |-> v.query, max_results |-> v.max_results,
            search_depth |-> v.search_depth, inputs |-> i] :
              v \in {Bare, Decoy}, i \in InnerValues }
    \cup { [kind |-> k, keys |-> ks,
            query |-> "", max_results |-> 0, search_depth |-> "",
            inputs |-> NoInputs] :
              k \in {"str", "list"}, ks \in SUBSET {"inputs", "query"} }
    \cup { [kind |-> k, keys |-> {},
            query |-> "", max_results |-> 0, search_depth |-> "",
            inputs |-> NoInputs] :
              k \in {"scalar", "malformed", "badutf8"} }

NoBody == [kind |-> "malformed", keys |-> {},
           query |-> "", max_results |-> 0, search_depth |-> "",
           inputs |-> NoInputs]

\* a body that is valid for both POST endpoints
SampleBody ==
    [kind |-> "dict", keys |-> {"inputs", "query"},
     query |-> "cats", max_results |-> 0, search_depth |-> "",
     inputs |-> [kind |-> "dict", keys |-> {"query"},
                 query |-> "cats", max_results |-> 0, search_depth |-> ""]]

\* the requests the HTTP layer hands to the handler
Requests ==
    { [method |-> "POST", path |-> p, clen |-> "ok", body |-> b] :
        p \in {"/mcp", "/search"}, b \in Bodies }
    \cup { [method |-> "POST", path |-> p, clen |-> c, body |-> NoBody] :
             p \in {"/mcp", "/search"}, c \in ContentLengths \ {"ok"} }
    \cup { [method |-> m, path |-> p, clen |-> "ok", body |-> SampleBody] :
             m \in Methods, p \in Paths }
    \cup { [method |-> m, path |-> p, clen |-> "absent", body |-> NoBody] :
             m \in Methods, p \in Paths }

NoRequest == [method |-> "", path |-> "", clen |-> "absent", body |-> NoBody]

(***************************************************************************)
(* Python operations on a decoded value.  Each yields ok = FALSE and the   *)
(* exception when Python raises.                                           *)
(***************************************************************************)
Exc(type, msg) == [type |-> type, msg |-> msg]
NoExc == Exc("", "")

\* key in v
PyIn(key, v) ==
    IF v.kind = "scalar"
    THEN [ok |-> FALSE, val |-> FALSE,
          exc |-> Exc("TypeError", "argument of type 'NoneType' is not iterable")]
    ELSE [ok |-> TRUE, val |-> key \in v.keys, exc |-> NoExc]

\* v[key], for a str key
PySubscript(v, key) ==
    CASE v.kind = "dict" /\ key \in v.keys -> [ok |-> TRUE, exc |-> NoExc]
      [] v.kind = "dict" -> [ok |-> FALSE, exc |-> Exc("KeyError", "'" \o key \o "'")]
      [] v.kind = "str" ->
           [ok |-> FALSE, exc |-> Exc("TypeError", "string indices must be integers, not 'str'")]
      [] v.kind = "list" ->
           [ok |-> FALSE, exc |-> Exc("TypeError", "list indices must be integers or slices, not str")]
      [] OTHER ->
           [ok |-> FALSE, exc |-> Exc("TypeError", "'NoneType' object is not subscriptable")]

\* v.get(key, default)
PyGet(v, key, default) ==
    IF v.kind = "dict"
    THEN [ok |-> TRUE, val |-> IF key \in v.keys THEN v[key] ELSE default, exc |-> NoExc]
    ELSE [ok |-> FALSE, val |-> default,
          exc |-> Exc("AttributeError", "'" \o v.kind \o "' object has no attribute 'get'")]

\* a or b
PyOr(a, b) == IF a \notin {None, ""} THEN a ELSE b

\* not a, for a str or None
PyNot(a) == a \in {None, ""}

(***************************************************************************)
(* What a stretch of handler code ends in: a call of _send_response        *)
(* ("respond"; try names the try block the call sits in, "none" outside    *)
(* any), a raised exception ("raise"), or the call of                      *)
(* self.tavily_client.search ("call").                                     *)
(***************************************************************************)
NoData == [error |-> ""]

Respond(status, data, try) ==
    [tag |-> "respond", status |-> status, data |-> data, try |-> try,
     exc |-> NoExc, query |-> "", max_results |-> 0, search_depth |-> ""]

Raise(exc) ==
    [tag |-> "raise", status |-> 0, data |-> NoData, try |-> "none",
     exc |-> exc, query |-> "", max_results |-> 0, search_depth |-> ""]

Call(query, max_results, search_depth) ==
    [tag |-> "call", status |-> 0, data |-> NoData, try |-> "post",
     exc |-> NoExc, query |-> query, max_results |-> max_results,
     search_depth |-> search_depth]

\* content_length = int(self.headers.get("Content-Length", 0)) and the
\* decoding and parsing of the body; "parsed" when request_data is bound
ReadBody(r) ==
    CASE r.clen = "garbage" ->
           Raise(Exc("ValueError", "invalid literal for int() with base 10: 'abc'"))
      [] r.clen \in {"absent", "zero"} ->
           Respond(400, [error |-> "Empty request body"], "post")
      [] r.body.kind = "badutf8" ->
           Raise(Exc("UnicodeDecodeError", "'utf-8' codec can't decode byte 0xff"))
      [] r.body.kind = "malformed" ->
           Raise(Exc("JSONDecodeError", "Expecting value: line 1 column 1 (char 0)"))
      [] OTHER -> [Call("", 0, "") EXCEPT !.tag = "parsed"]

\* the arguments of the search call of POST /mcp
McpArguments(inputs) ==
    LET max_results == PyGet(inputs, "max_results", McpDefaultMaxResults)
        search_depth == PyGet(inputs, "search_depth", McpDefaultSearchDepth)
    IN  IF ~max_results.ok THEN Raise(max_results.exc)
        ELSE IF ~search_depth.ok THEN Raise(search_depth.exc)
        ELSE Call(inputs.query, max_results.val, search_depth.val)

\* the try block of the "/mcp" branch of do_POST, up to the search call
McpTry(r) ==
    LET read == ReadBody(r)
        request_data == r.body
        hasInputs == PyIn("inputs", request_data)
        inputs == request_data.inputs
        hasQuery == PyIn("query", inputs)
    IN  IF read.tag # "parsed" THEN read
        ELSE IF ~hasInputs.ok THEN Raise(hasInputs.exc)
        ELSE IF ~hasInputs.val
             THEN Respond(400, [error |-> "Missing 'inputs' in MCP request"], "post")
        ELSE IF ~PySubscript(request_data, "inputs").ok
             THEN Raise(PySubscript(request_data, "inputs").exc)
        ELSE IF ~hasQuery.ok THEN Raise(hasQuery.exc)
        ELSE IF ~hasQuery.val
             THEN Respond(400, [error |-> "Missing 'query' parameter in inputs"], "post")
        ELSE McpArguments(inputs)

\* max_results = request_data.get("max_results") or 10, and likewise the depth
LegacyArgumentsOr(request_data) ==
    LET max_results == PyGet(request_data, "max_results", 0)
        search_depth == PyGet(request_data, "search_depth", "")
    IN  IF ~max_results.ok THEN Raise(max_results.exc)
        ELSE IF ~search_depth.ok THEN Raise(search_depth.exc)
        ELSE Call(request_data.query,
                  IF max_results.val = 0 THEN LegacyDefaultMaxResults
                  ELSE max_results.val,
                  IF search_depth.val = "" THEN LegacyDefaultSearchDepth
                  ELSE search_depth.val)

\* the arguments of the search call of POST /search
LegacyArguments(request_data) ==
    LET max_results == PyGet(request_data, "max_results", LegacyDefaultMaxResults)
        search_depth == PyGet(request_data, "search_depth", LegacyDefaultSearchDepth)
    IN  IF ~max_results.ok THEN Raise(max_results.exc)
        ELSE IF ~search_depth.ok THEN Raise(search_depth.exc)
        ELSE Call(request_data.query, max_results.val, search_depth.val)

\* the try block of the "/search" branch of do_POST, up to the search call
LegacyTry(r) ==
    LET read == ReadBody(r)
        request_data == r.body
        hasQuery == PyIn("query", request_data)
    IN  IF read.tag # "parsed" THEN read
        ELSE IF ~hasQuery.ok THEN Raise(hasQuery.exc)
        ELSE IF ~hasQuery.val
             THEN Respond(400, [error |-> "Missing 'query' parameter"], "post")
        ELSE LegacyArguments(request_data)

\* except json.JSONDecodeError: ... except Exception as e: ...
PostExcept(exc) ==
    IF exc.type = "JSONDecodeError"
    THEN Respond(400, [error |-> "Invalid JSON in request body"], "none")
    ELSE Respond(500, [error |-> exc.msg], "none")

HandledNowhere(o) == o

Handled(o) == IF o.tag = "raise" THEN PostExcept(o.exc) ELSE o

NotFound == Respond(404, [error |-> "Not found"], "none")

\* any path but "/mcp" is served as the legacy endpoint
PostRouteLoose(r) ==
    CASE r.path = "/mcp" -> Handled(McpTry(r))
      [] OTHER -> Handled(LegacyTry(r))

\* do_POST up to its first _send_response or search call
PostRoute(r) ==
    CASE r.path = "/mcp" -> Handled(McpTry(r))
      [] r.path = "/search" -> Handled(LegacyTry(r))
      [] OTHER -> NotFound

\* the envelope reports the default depth, not the one used
McpEnvelopeDefaultDepth(results, search_depth) ==
    [results |-> results.results, query |-> results.query,
     count |-> Len(results.results), search_depth |-> McpDefaultSearchDepth]

\* the response do_POST /mcp builds from the gateway's result
McpEnvelope(results, search_depth) ==
    [results |-> results.results, query |-> results.query,
     count |-> Len(results.results), search_depth |-> search_depth]

\* an error payload of the gateway is passed on as it is
McpShapeLenient(results, search_depth) ==
    IF "error" \in DOMAIN results THEN Respond(200, results, "post")
    ELSE IF "results" \notin DOMAIN results THEN Raise(Exc("KeyError", "'results'"))
    ELSE IF "query" \notin DOMAIN results THEN Raise(Exc("KeyError", "'query'"))
    ELSE Respond(200, McpEnvelope(results, search_depth), "post")

\* results["results"], results["query"] and the call of _send_response
McpShape(results, search_depth) ==
    IF "results" \notin DOMAIN results THEN Raise(Exc("KeyError", "'results'"))
    ELSE IF "query" \notin DOMAIN results THEN Raise(Exc("KeyError", "'query'"))
    ELSE Respond(200, McpEnvelope(results, search_depth), "post")

\* do_POST after the search call returned
PostShape(r, results, search_depth) ==
    IF r.path = "/mcp" THEN Handled(McpShape(results, search_depth))
    ELSE Respond(200, results, "post")

(***************************************************************************)
(* do_GET.                                                                 *)
(***************************************************************************)
\* the document in tavily_mcp_config.json
ConfigDocument == [name |-> "tavily", endpoint |-> "/mcp"]

\* what open() and json.load() of the configuration file raise
ConfigFaults ==
    { Exc("FileNotFoundError", "[Errno 2] No such file or directory"),
      Exc("JSONDecodeError", "Expecting value: line 1 column 1 (char 0)") }

\* except Exception as e, in the "/mcp-config" branch
ConfigExcept(exc) ==
    Respond(500, [error |-> "Failed to serve MCP config: " \o exc.msg], "none")

\* do_GET up to its first _send_response; "config" when the file is read
GetRoute(r) ==
    CASE r.path = "/health" -> Respond(200, [status |-> "healthy"], "none")
      [] r.path = "/mcp-config" -> [NotFound EXCEPT !.tag = "config"]
      [] OTHER -> NotFound

(***************************************************************************)
(* TavilyMCP.                                                              *)
(***************************************************************************)
NoGateway == [state |-> "absent", arg |-> None, api_key |-> None, client |-> FALSE]

\* only a missing key is refused: if self.api_key is None
TavilyInitIsNone(arg, environ) ==
    LET api_key == PyOr(arg, environ)
    IN  IF api_key = None
        THEN [state |-> "ValueError", arg |-> arg, api_key |-> api_key, client |-> FALSE]
        ELSE [state |-> "ready", arg |-> arg, api_key |-> api_key, client |-> TRUE]

\* TavilyMCP.__init__(api_key), with TAVILY_API_KEY = environ
TavilyInit(arg, environ) ==
    LET api_key == PyOr(arg, environ)
    IN  IF PyNot(api_key)
        THEN [state |-> "ValueError", arg |-> arg, api_key |-> api_key, client |-> FALSE]
        ELSE [state |-> "ready", arg |-> arg, api_key |-> api_key, client |-> TRUE]

\* the parameters of search() when it is called with the arguments in v
SearchParameters(v) ==
    [query |-> v.query,
     max_results |-> IF "max_results" \in v.keys THEN v.max_results
                     ELSE GatewayDefaultMaxResults,
     search_depth |-> IF "search_depth" \in v.keys THEN v.search_depth
                      ELSE GatewayDefaultSearchDepth]

\* the call is made again
ClientSearchRetry(calls, a) ==
    LET call == [query |-> a.query, max_results |-> a.max_results,
                 search_depth |-> a.search_depth]
    IN  Append(Append(calls, call), call)

\* the provider calls after search() ran self.client.search(...)
ClientSearch(calls, a) ==
    Append(calls, [query |-> a.query, max_results |-> a.max_results,
                   search_depth |-> a.search_depth])

\* return response
SearchReturn(response) == response

\* the message of the exception is dropped
SearchExceptGeneric(msg) == [error |-> "search failed"]

\* except Exception as e: return {"error": str(e)}
SearchExcept(msg) == [error |-> msg]

\* what the provider answers
ProviderResponses ==
    { [results |-> items, query |-> q] : items \in SeqsUpTo(Items, MaxItems), q \in Echoes }
    \cup { [results |-> items] : items \in SeqsUpTo(Items, MaxItems) }
    \cup { [query |-> q] : q \in Echoes }

(***************************************************************************)
(* State.                                                                  *)
(***************************************************************************)
VARIABLES
    environ,        \* the value of TAVILY_API_KEY
    gateway,        \* the TavilyMCP instance
    pc,             \* where the handling of the current request stands
    req,            \* the current request
    args,           \* query, max_results, search_depth of the search call
    answer,         \* what the provider call ended in
    results,        \* what TavilyMCP.search returned
    out,            \* the response _send_response is called with
    sent,           \* the _send_response calls of the current request
    gatewayCalls,   \* calls of TavilyMCP.search for the current request
    providerCalls,  \* calls of TavilyClient.search for the current request
    escaped         \* an exception left the handler

vars == <<environ, gateway, pc, req, args, answer, results, out, sent,
          gatewayCalls, providerCalls, escaped>>

NoArgs == [query |-> "", max_results |-> 0, search_depth |-> ""]
NoResults == [error |-> ""]
NoAnswer == [tag |-> "none", response |-> NoResults, msg |-> ""]
NoOut == [status |-> 0, data |-> NoData, try |-> "none", ctype |-> ""]

Init ==
    /\ environ \in EnvKeys
    /\ gateway = NoGateway
    /\ pc = "idle"
    /\ req = NoRequest
    /\ args = NoArgs
    /\ answer = NoAnswer
    /\ results = NoResults
    /\ out = NoOut
    /\ sent = <<>>
    /\ gatewayCalls = 0
    /\ providerCalls = <<>>
    /\ escaped = FALSE

\* nothing of a request outlives it
Fresh ==
    /\ answer' = NoAnswer
    /\ results' = NoResults
    /\ sent' = <<>>
    /\ providerCalls' = <<>>
    /\ escaped' = FALSE

\* the handler goes on as the outcome o says; an exception no except clause
\* caught leaves it
Continue(o) ==
    CASE o.tag = "respond" ->
           /\ out' = [status |-> o.status, data |-> o.data, try |-> o.try,
                      ctype |-> "application/json"]
           /\ pc' = "send"
           /\ UNCHANGED <<args, gatewayCalls, escaped>>
      [] o.tag = "call" ->
           /\ args' = [query |-> o.query, max_results |-> o.max_results,
                       search_depth |-> o.search_depth]
           /\ gatewayCalls' = gatewayCalls + 1
           /\ pc' = "search"
           /\ UNCHANGED <<out, escaped>>
      [] o.tag = "config" ->
           /\ pc' = "config"
           /\ UNCHANGED <<args, gatewayCalls, out, escaped>>
      [] o.tag = "raise" ->
           /\ pc' = "done"
           /\ escaped' = TRUE
           /\ UNCHANGED <<args, gatewayCalls, out>>

\* TavilyMCP(api_key = arg)
Construct(arg) ==
    /\ pc = "idle"
    /\ gateway.state # "ready"
    /\ gateway' = TavilyInit(arg, environ)
    /\ UNCHANGED <<environ, pc, req, args, answer, results, out, sent,
                   gatewayCalls, providerCalls, escaped>>

\* the HTTP layer parsed a request; MCPServer passed the gateway to the handler
Receive(r) ==
    /\ pc = "idle"
    /\ gateway.state = "ready"
    /\ req' = r
    /\ pc' = "dispatch"
    /\ UNCHANGED <<environ, gateway, args, answer, results, out, sent,
                   gatewayCalls, providerCalls, escaped>>

\* mcp.search(...) called directly, with or without the optional arguments
DirectSearch(v) ==
    /\ pc = "idle"
    /\ gateway.state = "ready"
    /\ req' = [method |-> "CALL", path |-> "search", clen |-> "absent",
               body |-> [kind |-> "dict", keys |-> v.keys, query |-> v.query,
                         max_results |-> v.max_results,
                         search_depth |-> v.search_depth, inputs |-> NoInputs]]
    /\ args' = SearchParameters(v)
    /\ gatewayCalls' = 1
    /\ pc' = "search"
    /\ UNCHANGED <<environ, gateway, answer, results, out, sent, providerCalls, escaped>>

do_POST ==
    /\ pc = "dispatch"
    /\ req.method = "POST"
    /\ Continue(PostRoute(req))
    /\ UNCHANGED <<environ, gateway, req, results, answer, sent, providerCalls>>

do_GET ==
    /\ pc = "dispatch"
    /\ req.method = "GET"
    /\ Continue(GetRoute(req))
    /\ UNCHANGED <<environ, gateway, req, results, answer, sent, providerCalls>>

\* BaseHTTPRequestHandler: no do_<method>, send_error(501)
UnsupportedMethod ==
    /\ pc = "dispatch"
    /\ req.method \notin {"POST", "GET"}
    /\ out' = [status |-> 501, data |-> [error |-> "Unsupported method"],
               try |-> "none", ctype |-> "text/html;charset=utf-8"]
    /\ pc' = "send"
    /\ UNCHANGED <<environ, gateway, req, args, answer, results, sent,
                   gatewayCalls, providerCalls, escaped>>

\* with open(config_path) as f: config = json.load(f)
ReadConfig ==
    /\ pc = "config"
    /\ \/ Continue(Respond(200, ConfigDocument, "config"))
       \/ \E e \in ConfigFaults : Continue(ConfigExcept(e))
    /\ UNCHANGED <<environ, gateway, req, results, answer, sent, providerCalls>>

\* TavilyMCP.search: response = self.client.search(...)
search ==
    /\ pc = "search"
    /\ providerCalls' = ClientSearch(providerCalls, args)
    /\ pc' = "provider"
    /\ UNCHANGED <<environ, gateway, req, args, answer, results, out, sent,
                   gatewayCalls, escaped>>

\* the provider answered
ProviderReturns(response) ==
    /\ pc = "provider"
    /\ answer' = [tag |-> "response", response |-> response, msg |-> ""]
    /\ results' = SearchReturn(response)
    /\ pc' = "returned"
    /\ UNCHANGED <<environ, gateway, req, args, out, sent,
                   gatewayCalls, providerCalls, escaped>>

\* the provider client raised
ProviderRaises(msg) ==
    /\ pc = "provider"
    /\ answer' = [tag |-> "raise", response |-> NoResults, msg |-> msg]
    /\ results' = SearchExcept(msg)
    /\ pc' = "returned"
    /\ UNCHANGED <<environ, gateway, req, args, out, sent,
                   gatewayCalls, providerCalls, escaped>>

\* the caller of search() goes on with its result
Returned ==
    /\ pc = "returned"
    /\ IF req.method = "CALL"
       THEN pc' = "done" /\ UNCHANGED <<args, gatewayCalls, out, escaped>>
       ELSE Continue(PostShape(req, results, args.search_depth))
    /\ UNCHANGED <<environ, gateway, req, results, answer, sent, providerCalls>>

(***************************************************************************)
(* _send_response: the status line and the headers, then the body.  Both   *)
(* are written to the connection, and either write can fail.               *)
(***************************************************************************)
\* what wfile.write raises when the peer is gone
WriteFault == Exc("BrokenPipeError", "[Errno 32] Broken pipe")

\* the except clauses around a statement of the try block named try
ExceptClauses(try, exc) ==
    CASE try = "post" -> PostExcept(exc)
      [] try = "config" -> ConfigExcept(exc)
      [] OTHER -> Raise(exc)

Started(headers) ==
    Append(sent, [status |-> out.status, data |-> out.data, ctype |-> out.ctype,
                  headers |-> headers, body |-> FALSE])

\* an exception raised inside _send_response
Faulted == Continue(ExceptClauses(out.try, WriteFault))

\* send_response, send_header, end_headers
SendHeaders ==
    /\ pc = "send"
    /\ sent' = Started(TRUE)
    /\ pc' = "write"
    /\ UNCHANGED <<environ, gateway, req, args, answer, results, out,
                   gatewayCalls, providerCalls, escaped>>

\* end_headers could not write the header block
HeadersFault ==
    /\ pc = "send"
    /\ sent' = Started(FALSE)
    /\ Faulted
    /\ UNCHANGED <<environ, gateway, req, answer, results, providerCalls>>

\* self.wfile.write(json.dumps(data).encode())
WriteBody ==
    /\ pc = "write"
    /\ sent' = [sent EXCEPT ![Len(sent)].body = TRUE]
    /\ pc' = "done"
    /\ UNCHANGED <<environ, gateway, req, args, answer, results, out,
                   gatewayCalls, providerCalls, escaped>>

\* the body could not be written
BodyFault ==
    /\ pc = "write"
    /\ Faulted
    /\ UNCHANGED <<environ, gateway, req, answer, results, sent, providerCalls>>

\* the handler returned and its locals are gone; the gateway stays
Finish ==
    /\ pc = "done"
    /\ pc' = "idle"
    /\ req' = NoRequest
    /\ args' = NoArgs
    /\ out' = NoOut
    /\ gatewayCalls' = 0
    /\ Fresh
    /\ UNCHANGED <<environ, gateway>>

\* the steps of handling one request
Step ==
    \/ do_POST
    \/ do_GET
    \/ UnsupportedMethod
    \/ ReadConfig
    \/ search
    \/ \E response \in ProviderResponses : ProviderReturns(response)
    \/ \E msg \in ProviderFaults : ProviderRaises(msg)
    \/ Returned
    \/ SendHeaders
    \/ HeadersFault
    \/ WriteBody
    \/ BodyFault
    \/ Finish

DirectCalls == {v \in InnerDicts : "query" \in v.keys}

Next ==
    \/ \E arg \in ApiKeyArgs : Construct(arg)
    \/ \E r \in Requests : Receive(r)
    \/ \E v \in DirectCalls : DirectSearch(v)
    \/ Step

Spec == Init /\ [][Next]_vars

\* the handler runs to its end: no read, provider call or write blocks for ever
FairSpec == Spec /\ WF_vars(Step)

(***************************************************************************)
(* Vocabulary of the properties.                                           *)
(***************************************************************************)
HasKey(v, key) == v.kind = "dict" /\ key \in v.keys

IsPost(r, path) == r.method = "POST" /\ r.path = path

\* the request is read and is a JSON object with the required fields
ValidMcp(r) ==
    /\ IsPost(r, "/mcp") /\ r.clen = "ok"
    /\ HasKey(r.body, "inputs") /\ HasKey(r.body.inputs, "query")

ValidLegacy(r) ==
    /\ IsPost(r, "/search") /\ r.clen = "ok"
    /\ HasKey(r.body, "query")

PassesValidation(r) == ValidMcp(r) \/ ValidLegacy(r)

\* the value the fields of the search are taken from
Supplied(r) == IF r.path = "/mcp" THEN r.body.inputs ELSE r.body

IsRoute(r) ==
    \/ r.method = "POST" /\ r.path \in {"/mcp", "/search"}
    \/ r.method = "GET" /\ r.path \in {"/health", "/mcp-config"}

\* the search has come back to its caller
SearchIsOver == pc \in {"returned", "send", "write", "done"} /\ gatewayCalls > 0

ProviderFailed == answer.tag = "raise"
ProviderSucceeded == answer.tag = "response"

\* every write of the request's first response went through
Complete(response) == response.headers /\ response.body

IsErrorBody(data) == DOMAIN data = {"error"}

\* _send_response is being called or was called for the request
Responding == pc = "send" \/ Len(sent) >= 1

\* the first _send_response call of the request: its status, data and type
First == IF Len(sent) >= 1 THEN sent[1] ELSE out

(***************************************************************************)
(* C1.  A POST /mcp or POST /search request that passes validation leads   *)
(* to exactly one call of the provider, whether that call succeeds or      *)
(* raises: none is skipped, none is repeated, and every invocation of      *)
(* TavilyMCP.search (a direct one included) makes exactly one provider     *)
(* call.                                                                   *)
(***************************************************************************)
C1_ExactlyOneProviderCall ==
    /\ Len(providerCalls) <= 1
    /\ SearchIsOver => Len(providerCalls) = gatewayCalls
    /\ (pc = "done" /\ PassesValidation(req)) =>
           gatewayCalls = 1 /\ Len(providerCalls) = 1
    /\ (pc = "done" /\ req.method = "CALL") => Len(providerCalls) = 1

C1_Witness ==
    /\ pc = "done" /\ PassesValidation(req)
    /\ ProviderFailed /\ Len(providerCalls) = 1

(***************************************************************************)
(* C2.  A client input error on POST /mcp or POST /search (declared        *)
(* content length zero or absent, body that is not well-formed JSON, no    *)
(* `inputs` key on /mcp, no `query` field) is answered with status 400 and *)
(* an {"error": ...} body, and the gateway's search is not invoked.        *)
(***************************************************************************)
ClientInputError(r) ==
    /\ r.method = "POST" /\ r.path \in {"/mcp", "/search"}
    /\ \/ r.clen \in {"absent", "zero"}
       \/ r.clen = "ok" /\ r.body.kind = "malformed"
       \/ r.clen = "ok" /\ r.body.kind \in {"scalar", "str", "list", "dict"}
          /\ ~PassesValidation(r)

C2_InputErrorsAre400 ==
    ClientInputError(req) =>
        /\ gatewayCalls = 0
        /\ pc = "done" => Len(sent) >= 1
        /\ Responding => First.status = 400 /\ IsErrorBody(First.data)

ExpectedArguments(r) ==
    LET v == IF r.method = "CALL" THEN r.body ELSE Supplied(r)
    IN  [query |-> v.query,
         max_results |-> IF "max_results" \in v.keys THEN v.max_results ELSE 10,
         search_depth |-> IF "search_depth" \in v.keys THEN v.search_depth
                          ELSE "basic"]

C4_ArgumentsSuppliedOrDefault ==
    \A i \in 1..Len(providerCalls) : providerCalls[i] = ExpectedArguments(req)

C4_Witness ==
    /\ IsPost(req, "/search") /\ Len(providerCalls) = 1
    /\ req.body.keys = {"query", "max_results"}
    /\ providerCalls[1] = [query |-> "cats", max_results |-> 0, search_depth |-> "basic"]

(***************************************************************************)
(* C5.  TavilyMCP.search hands its caller a value in every case: the       *)
(* provider's response unchanged when the provider call succeeds,          *)
(* {"error": <message of the exception>} when it raises; no exception      *)
(* leaves search.                                                          *)
(***************************************************************************)
C5_SearchReturnsAValue ==
    SearchIsOver =>
        /\ answer.tag \in {"response", "raise"}
        /\ ProviderSucceeded => results = answer.response
        /\ ProviderFailed => results = [error |-> answer.msg]
        /\ pc = "returned" => ~escaped
        /\ (pc = "done" /\ req.method = "CALL") => ~escaped

C5_Witness ==
    /\ pc = "done" /\ req.method = "CALL" /\ ~escaped
    /\ ProviderFailed /\ results = [error |-> "timed out"]

(***************************************************************************)
(* C6.  TavilyMCP(api_key) with api_key None or "" fails with the          *)
(* ValueError and creates no provider client; "" is treated like None.     *)
(***************************************************************************)
\* C6 as stated
C6_NoArgumentAlwaysFails ==
    (gateway.state # "absent" /\ gateway.arg \in {None, ""}) =>
        gateway.state = "ValueError" /\ ~gateway.client

\* C6, amended: with api_key None or "" the constructor falls back on TAVILY_API_KEY: it
\* fails with the ValueError, creating no client, exactly when that variable
\* is unset or empty, and otherwise builds the client with the variable's
\* value; None and "" are treated alike
C6_FailsWithoutAnyCredential ==
    (gateway.state # "absent" /\ gateway.arg \in {None, ""}) =>
        IF environ \in {None, ""}
        THEN gateway.state = "ValueError" /\ ~gateway.client
        ELSE gateway.state = "ready" /\ gateway.client /\ gateway.api_key = environ

C6_Witness ==
    /\ gateway.state = "ValueError" /\ ~gateway.client
    /\ gateway.arg = "" /\ environ = ""

C8_McpEnvelope ==
    ( /\ ValidMcp(req) /\ ProviderSucceeded /\ Responding
      /\ {"results", "query"} \subseteq DOMAIN answer.response ) =>
        /\ First.status = 200
        /\ DOMAIN First.data = {"results", "query", "count", "search_depth"}
        /\ First.data.results = answer.response.results
        /\ First.data.query = answer.response.query
        /\ First.data.count = Len(answer.response.results)
        /\ First.data.search_depth = providerCalls[1].search_depth
        /\ providerCalls[1].search_depth = ExpectedArguments(req).search_depth
        /\ (pc = "done" /\ ~escaped /\ Len(sent) = 1) => Complete(sent[1])

C8_Witness ==
    /\ pc = "done" /\ ValidMcp(req) /\ Len(sent) = 1 /\ Complete(sent[1])
    /\ sent[1].status = 200
    /\ sent[1].data = [results |-> <<"r2", "r1">>, query |-> "normalised",
                       count |-> 2, search_depth |-> "bogus"]

(***************************************************************************)
(* C9.  Provider call fails, request valid: POST /mcp answers 500 with an  *)
(* {"error": ...} body that comes from the failed shaping step, not from   *)
(* the provider; POST /search answers 200 with the gateway's               *)
(* {"error": <provider message>}; neither returns a success envelope.      *)
(***************************************************************************)
C9_ProviderFailureDiverges ==
    (PassesValidation(req) /\ ProviderFailed /\ Responding) =>
        /\ IF req.path = "/mcp"
           THEN /\ First.status = 500
                /\ First.data = [error |-> "'results'"]
                /\ First.data.error # answer.msg
           ELSE /\ First.status = 200
                /\ First.data = [error |-> answer.msg]
        /\ IsErrorBody(out.data)
        /\ \A i \in 1..Len(sent) : IsErrorBody(sent[i].data)

C9_Witness ==
    /\ pc = "done" /\ ValidMcp(req) /\ ProviderFailed
    /\ Len(sent) = 1 /\ Complete(sent[1])
    /\ sent[1].status = 500 /\ sent[1].data = [error |-> "'results'"]

(***************************************************************************)
(* C10.  At most one response is written per request: once a               *)
(* _send_response call has put out its status line and headers, no second  *)
(* _send_response call is made for the request, also when writing the      *)
(* body of the first fails inside the try block.                           *)
(***************************************************************************)
C10_AtMostOneResponse ==
    \A i \in 1..Len(sent) : sent[i].headers => i = Len(sent)

====
